---- MODULE Spec2Model ----
(***************************************************************************)
(* Model of the status page library: the renderer (generateHTML and its    *)
(* helpers, createStatusPage), the demo entry point with its static        *)
(* configuration, and the Gridfox adapter (configFromGridfox).             *)
(*                                                                         *)
(* A string the code assembles is a sequence of tokens.  A fixed fragment  *)
(* of a template literal is one token; an interpolated name, title or icon *)
(* is one token; the logo and the custom CSS are sequences of             *)
(* single-character tokens, because the code inspects or could rewrite     *)
(* their characters.  Concatenation is \o, as in the template literals.    *)
(* The white space a template literal holds between its tags is left out.  *)
(***************************************************************************)
EXTENDS Integers, Sequences, FiniteSets, TLC

\* ------------------------------------------------------------------ bounds

\* Environments on one page (and environment records in one fetch).
MaxEnvs == 3
\* Services on one page in total (and in one fetch of environment records).
MaxServices == 3
\* Issue records in one fetch.
MaxIssues == 2

\* Requests one server answers in a run that keeps its history.
MaxRequests == 3

\* ------------------------------------------------------------------ state

VARIABLES
  config,              \* the StatusPageConfig the caller holds
  response,            \* the Response of the latest createStatusPage call
  log,                 \* history of render calls: config, clock, body
  pc,                  \* where the configFromGridfox call stands
  environmentRecords,  \* configFromGridfox: records of the first fetch
  issueRecords,        \* configFromGridfox: records of the second fetch
  pageConfig,          \* configFromGridfox: the config it is about to return
  requests,            \* configFromGridfox: tables requested so far
  received             \* configFromGridfox: what came of each request so far

vars ==
  << config, response, log, pc, environmentRecords, issueRecords, pageConfig,
     requests, received >>

\* ------------------------------------------------------------- data model

Status == {"noissue", "incident", "outage"}

ICONS ==
  [ noissue |-> "<svg viewBox=\"0 0 20 20\" fill=\"none\" xmlns=\"http://www.w3.org/2000/svg\"><path fill-rule=\"evenodd\" clip-rule=\"evenodd\" d=\"M10 20C15.5229 20 20 15.5228 20 10C20 4.47715 15.5229 0 10 0C4.47716 0 0 4.47715 0 10C0 15.5228 4.47716 20 10 20ZM6 10L9 13L14 8L13 7L9 11L7 9L6 10Z\" fill=\"#6FBA97\"/></svg>",
    incident |-> "<svg viewBox=\"0 0 20 18\" fill=\"none\" xmlns=\"http://www.w3.org/2000/svg\"><path fill-rule=\"evenodd\" clip-rule=\"evenodd\" d=\"M1.77512 18H10H18.2249C19.4574 18 20.2271 16.665 19.6096 15.5983L11.3847 1.39172C10.7684 0.327268 9.23158 0.327264 8.61532 1.39172L0.390434 15.5983C-0.22711 16.665 0.542584 18 1.77512 18ZM9 6H11V11H9V6ZM11 13H9V15H11V13Z\" fill=\"#F2C661\"/></svg>",
    outage |-> "<svg viewBox=\"0 0 20 20\" fill=\"none\" xmlns=\"http://www.w3.org/2000/svg\"><path fill-rule=\"evenodd\" clip-rule=\"evenodd\" d=\"M10 20C15.5228 20 20 15.5228 20 10C20 4.47715 15.5228 0 10 0C4.47715 0 0 4.47715 0 10C0 15.5228 4.47715 20 10 20ZM5.5 9.5V10.5H14.5V9.5H5.5Z\" fill=\"#D83D4E\"/></svg>" ]

TITLES ==
  [ noissue |-> "All Systems Operational",
    incident |-> "Some Systems Are Experiencing Issues",
    outage |-> "Service Disruption Ongoing" ]

\* An optional string field: JavaScript's undefined, or a string.
Undefined == [defined |-> FALSE, text |-> <<>>]

Str(text) == [defined |-> TRUE, text |-> text]

\* JavaScript truthiness of an optional string: undefined and '' are falsy.
Truthy(v) == v.defined /\ v.text # <<>>

\* `v || d` on an optional string.
OrElse(v, d) == IF Truthy(v) THEN v ELSE d

\* What a template literal interpolates for an optional string.
Interpolate(v) == IF v.defined THEN v.text ELSE <<"undefined">>

\* A slip: only the first character compared.
StartsWith_FirstCharacter(s, prefix) ==
  /\ Len(s) >= 1
  /\ s[1] = prefix[1]

\* String.prototype.startsWith on sequences of characters.
StartsWith(s, prefix) ==
  /\ Len(s) >= Len(prefix)
  /\ SubSeq(s, 1, Len(prefix)) = prefix

\* Array.prototype.some.
Some(arr, P(_)) == \E i \in 1..Len(arr) : P(arr[i])

\* arr.map(f).join('') where f returns a string (a sequence of tokens).
MapJoin(arr, F(_, _)) ==
  LET join[i \in 1..(Len(arr) + 1)] ==
        IF i > Len(arr) THEN <<>> ELSE F(arr[i], i - 1) \o join[i + 1]
  IN  join[1]

\* --------------------------------------------------------------- renderer

\* The clock reading behind `new Date()`: the local hour and minute, and
\* getTimezoneOffset() in minutes.
Clocks ==
  { [hour |-> 9, minute |-> 5, offset |-> 0],
    [hour |-> 23, minute |-> 59, offset |-> -60],
    [hour |-> 23, minute |-> 59, offset |-> 60] }

Digit == <<"0", "1", "2", "3", "4", "5", "6", "7", "8", "9">>

\* en-GB prints the hour and the minute with two digits each.
TwoDigits(n) == <<Digit[(n \div 10) + 1], Digit[(n % 10) + 1]>>

getCurrentTime(d) ==
  LET time == TwoDigits(d.hour) \o <<":">> \o TwoDigits(d.minute)
      timezone == IF d.offset = 0 THEN "GMT" ELSE "BST"
  IN  time \o <<" ", timezone>>

RowOpen == "<div class=\"row\"><div class=\"cell\"><div class=\"service-name\">"
RowNameEnd == "</div><div class=\"status\">"
RowTitleEnd == "</div></div><div class=\"cell\"><div class=\"icon\">"
RowClose == "</div></div></div>"

ServiceRow(service, index) ==
  << RowOpen, service.name, RowNameEnd, TITLES[service.status],
     RowTitleEnd, ICONS[service.status], RowClose >>

\* A slip: the rows joined in reverse order.
generateServiceRows_Reversed(services) ==
  MapJoin([ j \in 1..Len(services) |-> services[Len(services) + 1 - j] ], ServiceRow)

generateServiceRows(services) == MapJoin(services, ServiceRow)

\* A slip: the incident test placed before the outage test.
getIcon_IncidentFirst(services) ==
  IF Some(services, LAMBDA s : s.status = "incident") THEN ICONS.incident
  ELSE IF Some(services, LAMBDA s : s.status = "outage") THEN ICONS.outage
  ELSE ICONS.noissue

getIcon(services) ==
  IF Some(services, LAMBDA s : s.status = "outage") THEN ICONS.outage
  ELSE IF Some(services, LAMBDA s : s.status = "incident") THEN ICONS.incident
  ELSE ICONS.noissue

DetailsOpen == "<details "
DetailsClass == " class=\"table\"><summary class=\"row\"><div class=\"cell\">"
SummaryNameEnd == "</div><div class=\"cell\"><div class=\"icon\">"
SummaryClose == "</div></div></summary>"
DetailsClose == "</details>"

\* A slip: the position counted from one.
OpenAttribute_FromOne(index) == IF index = 1 THEN "open" ELSE ""

OpenAttribute(index) == IF index = 0 THEN "open" ELSE ""

EnvironmentTable(env, index) ==
  << DetailsOpen, OpenAttribute(index), DetailsClass, env.name,
     SummaryNameEnd, getIcon(env.services), SummaryClose >>
  \o generateServiceRows(env.services)
  \o << DetailsClose >>

\* A slip: the table index kept in a counter outside the function, so that
\* it runs on from one call to the next.
generateEnvironmentTables_SharedIndex(environments) ==
  LET Table(env, index) == EnvironmentTable(env, index + Len(log))
  IN  MapJoin(environments, Table)

generateEnvironmentTables(environments) ==
  MapJoin(environments, EnvironmentTable)

\* The built-in rules of the style block, from `:root` to `details.table`.
BuiltInRules == ":root { ... } @supports (font-variation-settings: normal) { ... } body { ... } .header { ... } .table { ... } div.table { ... } details.table { ... }"

DocumentOpen == "<!DOCTYPE html><html lang=\"en\"><head><meta charset=\"UTF-8\"><meta name=\"viewport\" content=\"width=device-width, initial-scale=1.0\"><title>"
TitleClose == "</title><link rel=\"preconnect\" href=\"https://rsms.me/\"><link rel=\"stylesheet\" href=\"https://rsms.me/inter/inter.css\">"
StyleOpen == "<style>"
CustomStylesComment == "/* Custom styles */"
StyleClose == "</style>"
BodyOpen == "</head><body><nav>"
LogoOpen == "<div class=\"logo\">"
ImgOpen == "<img height=\"22px;\" src=\""
ImgClose == "\" alt=\"Logo\">"
LogoClose == "</div>"
NavLinks == "<div class=\"links\"><a href=\"/\">View issues</a><a href=\"/\">New issue</a></div></nav>"
HeaderOpen == "<div class=\"header\"><div class=\"icon\">"
HeaderIconEnd == "</div><h1>"
HeaderTitleEnd == "</h1><p>Today - "
HeaderClose == "</p></div>"
LegendOpen == "<div class=\"table\"><div class=\"row\"><div class=\"cell\">Current status by service</div><div class=\"cell\">No issue <div class=\"icon\">"
LegendIncident == "</div></div><div class=\"cell\">Incident <div class=\"icon\">"
LegendOutage == "</div></div><div class=\"cell\">Outage <div class=\"icon\">"
LegendClose == "</div></div></div></div>"
DocumentClose == "</body></html>"

SvgMarker == <<"<", "s", "v", "g">>

LogoBlock(logo) ==
  IF StartsWith(logo, SvgMarker)
  THEN logo
  ELSE <<ImgOpen>> \o logo \o <<ImgClose>>

\* A slip: the `|| ''` default left out.
CustomStyles_NoDefault(customCSS) == Interpolate(customCSS)

CustomStyles(customCSS) == Interpolate(OrElse(customCSS, Str(<<>>)))

\* generateHTML, with the clock reading that getCurrentTime() takes made
\* an argument.
generateHTML(cfg, d) ==
  LET currentTime == getCurrentTime(d)
  IN  << DocumentOpen, cfg.title, TitleClose,
         StyleOpen, BuiltInRules, CustomStylesComment >>
      \o CustomStyles(cfg.customCSS)
      \o << StyleClose, BodyOpen, LogoOpen >>
      \o LogoBlock(cfg.logo)
      \o << LogoClose, NavLinks,
            HeaderOpen, ICONS[cfg.currentStatus],
            HeaderIconEnd, TITLES[cfg.currentStatus],
            HeaderTitleEnd >>
      \o currentTime
      \o << HeaderClose,
            LegendOpen, ICONS.noissue,
            LegendIncident, ICONS.incident,
            LegendOutage, ICONS.outage, LegendClose >>
      \o generateEnvironmentTables(cfg.environments)
      \o << DocumentClose >>

createStatusPage(cfg, d) ==
  [ body |-> generateHTML(cfg, d),
    headers |-> [ContentType |-> "text/html"] ]

\* ------------------------------------------------- the caller's configs

\* The demo's configuration; of its logo markup the opening tag, the text
\* and the closing tag are kept.
staticConfig ==
  [ title |-> "My Company Status",
    logo |-> << "<", "s", "v", "g", " ", ">", "L", "o", "g", "o", "<", "/", "s", "v", "g", ">" >>,
    currentStatus |-> "noissue",
    environments |->
      << [ name |-> "Production",
           services |-> << [name |-> "Web App", status |-> "noissue"],
                           [name |-> "API", status |-> "incident"],
                           [name |-> "Database", status |-> "noissue"] >> ],
         [ name |-> "Staging",
           services |-> << [name |-> "Web App", status |-> "noissue"],
                           [name |-> "API", status |-> "noissue"],
                           [name |-> "Database", status |-> "outage"] >> ] >>,
    customCSS |-> Str(<<>>) ]

\* Names by position, as in the demo configuration.
EnvNames == <<"Production", "Staging", "Testing", "Development">>
ServiceNames == <<"Web App", "API", "Database", "Cache", "Queue">>

NameAt(pool, i) == pool[((i - 1) % Len(pool)) + 1]

\* The sequences of at most k statuses.
StatusLists(k) == UNION { [1..n -> Status] : n \in 0..k }

\* The sequences of exactly n sequences of statuses, at most k statuses in all.
RECURSIVE StatusTables(_, _)
StatusTables(n, k) ==
  IF n = 0 THEN { <<>> }
  ELSE UNION { { <<s>> \o rest : rest \in StatusTables(n - 1, k - Len(s)) }
               : s \in StatusLists(k) }

ServicesOf(statuses) ==
  [ j \in 1..Len(statuses) |->
      [name |-> NameAt(ServiceNames, j), status |-> statuses[j]] ]

EnvironmentsOf(table) ==
  [ i \in 1..Len(table) |->
      [name |-> NameAt(EnvNames, i), services |-> ServicesOf(table[i])] ]

EnvironmentLists ==
  { EnvironmentsOf(table) :
      table \in UNION { StatusTables(n, MaxServices) : n \in 0..MaxEnvs } }

\* Logos a caller may give: inline vector markup, URLs, and strings that
\* only resemble the marker.
Logos ==
  { staticConfig.logo,
    << "<", "s", "v", "g" >>,
    << "<", "s", "v" >>,
    << "<", "s", "v", "x", "g" >>,
    << " ", "<", "s", "v", "g", ">" >>,
    << "h", "t", "t", "p", ":", "/", "/", "x", "/", "l", ".", "p", "n", "g" >>,
    << "/", "<", "s", "v", "g", ">" >>,
    << >> }

\* Custom CSS a caller may give: none, empty, and rules with characters
\* that HTML escaping would rewrite.
StyleSheets ==
  { Undefined,
    Str(<<>>),
    Str(<< "a", ">", "b", "{", "}" >>),
    Str(<< "p", "{", "c", ":", "\"", "<", "&", "\"", "}" >>) }

Configs ==
  { [ title |-> "My Company Status", logo |-> l, currentStatus |-> c,
      environments |-> e, customCSS |-> css ] :
      l \in { staticConfig.logo, << >> }, c \in Status,
      e \in EnvironmentLists, css \in { Undefined, Str(<< "a", ">", "b", "{", "}" >>) } }
  \cup
  { [ staticConfig EXCEPT !.logo = l, !.currentStatus = c, !.customCSS = css ] :
      l \in Logos, c \in Status, css \in StyleSheets }

\* -------------------------------------------------- rendering a config

\* The caller's variable before configFromGridfox has returned.
PendingConfig ==
  [ title |-> "", logo |-> <<>>, currentStatus |-> "noissue",
    environments |-> <<>>, customCSS |-> Undefined ]

\* No createStatusPage call has returned yet.
NoResponse == [ body |-> <<>>, headers |-> [ContentType |-> ""] ]

adapterVars ==
  <<pc, environmentRecords, issueRecords, pageConfig, requests, received>>

AdapterIdle ==
  /\ pc = "idle"
  /\ environmentRecords = <<>>
  /\ issueRecords = <<>>
  /\ pageConfig = PendingConfig
  /\ requests = <<>>
  /\ received = <<>>

\* The caller holds a config of its own making.
Init ==
  /\ config \in Configs
  /\ response = NoResponse
  /\ log = <<>>
  /\ AdapterIdle

\* One call createStatusPage(config), the clock reading d.
CreateStatusPage(d) ==
  /\ response' = createStatusPage(config, d)
  /\ UNCHANGED <<config, log, adapterVars>>

Next == \E d \in Clocks : CreateStatusPage(d)

Spec == Init /\ [][Next]_vars

\* ------------------------------------------ a server and its history

\* The configs the server is given over its life.
ServedConfigs ==
  { staticConfig,
    [staticConfig EXCEPT !.currentStatus = "outage", !.customCSS = Undefined],
    [staticConfig EXCEPT !.logo = <<>>, !.environments = <<>>] }

InitServe ==
  /\ config = staticConfig
  /\ response = NoResponse
  /\ log = <<>>
  /\ AdapterIdle

\* Deno.serve(() => createStatusPage(config)): one request, answered.
Serve(d) ==
  /\ Len(log) < MaxRequests
  /\ response' = createStatusPage(config, d)
  /\ config' = config
  /\ log' = Append(log, [ config |-> config, clock |-> d,
                          body |-> response'.body, configAfter |-> config' ])
  /\ UNCHANGED adapterVars

\* Between requests the caller passes another config.
Reconfigure(c) ==
  /\ c # config
  /\ config' = c
  /\ UNCHANGED <<response, log, adapterVars>>

NextServe ==
  \/ \E d \in Clocks : Serve(d)
  \/ \E c \in ServedConfigs : Reconfigure(c)

SpecServe == InitServe /\ [][NextServe]_vars

\* ------------------------------------------------- the Gridfox adapter

\* config.issueStatusType as the project's usage example gives it.
issueStatusType(issue) ==
  IF issue.type = "Bug" THEN "incident"
  ELSE IF issue.type = "Outage" THEN "outage"
  ELSE "noissue"

\* A slip: the environment test of the join left out.
ScopedIssues_AnyEnvironment(issues, s, env) ==
  SelectSeq(issues, LAMBDA issue : issue.service = s.referenceFieldValue)

\* The issue records joined to service s of environment record env.
ScopedIssues(issues, s, env) ==
  SelectSeq(issues, LAMBDA issue :
    /\ issue.service = s.referenceFieldValue
    /\ issue.environment = env.name)

ServiceStatus(issues, s, env) ==
  LET scopedIssues == ScopedIssues(issues, s, env)
      incidentIssues ==
        SelectSeq(scopedIssues, LAMBDA i : issueStatusType(i) = "incident")
      outageIssues ==
        SelectSeq(scopedIssues, LAMBDA i : issueStatusType(i) = "outage")
      afterIncident == IF Len(incidentIssues) # 0 THEN "incident" ELSE "noissue"
  IN  IF Len(outageIssues) # 0 THEN "outage" ELSE afterIncident

Environments(records, issues) ==
  [ e \in 1..Len(records) |->
      LET env == records[e]
      IN  [ name |-> env.name,
            services |->
              [ j \in 1..Len(env.services) |->
                  LET s == env.services[j]
                  IN  [ name |-> s.referenceFieldValue,
                        status |-> ServiceStatus(issues, s, env) ] ] ] ]

\* A slip: the incident test placed after the outage test, so that it
\* overwrites it.
CurrentStatus_IncidentLast(environments) ==
  LET afterOutage ==
        IF Some(environments, LAMBDA e :
             Some(e.services, LAMBDA s : s.status = "outage"))
        THEN "outage" ELSE "noissue"
  IN  IF Some(environments, LAMBDA e :
           Some(e.services, LAMBDA s : s.status = "incident"))
      THEN "incident" ELSE afterOutage

\* A slip: `every` for `some` over the environments.
CurrentStatus_Every(environments) ==
  LET Every(arr, P(_)) == \A i \in 1..Len(arr) : P(arr[i])
      afterIncident ==
        IF Every(environments, LAMBDA e :
             Some(e.services, LAMBDA s : s.status = "incident"))
        THEN "incident" ELSE "noissue"
  IN  IF Some(environments, LAMBDA e :
           Some(e.services, LAMBDA s : s.status = "outage"))
      THEN "outage" ELSE afterIncident

CurrentStatus(environments) ==
  LET afterIncident ==
        IF Some(environments, LAMBDA e :
             Some(e.services, LAMBDA s : s.status = "incident"))
        THEN "incident" ELSE "noissue"
  IN  IF Some(environments, LAMBDA e :
           Some(e.services, LAMBDA s : s.status = "outage"))
      THEN "outage" ELSE afterIncident

\* What configFromGridfox returns for the records of its two fetches.
PageConfig(records, issues) ==
  LET environments == Environments(records, issues)
  IN  [ title |-> "",
        logo |-> <<>>,
        currentStatus |-> CurrentStatus(environments),
        environments |-> environments,
        customCSS |-> Undefined ]

\* Environment records a fetch may return.
EnvironmentRecords ==
  { [ e \in 1..Len(environments) |->
        [ name |-> environments[e].name,
          services |->
            [ j \in 1..Len(environments[e].services) |->
                [referenceFieldValue |-> environments[e].services[j].name] ] ] ]
    : environments \in EnvironmentLists }

\* Open issue records a fetch may return.
Issues ==
  [ service : {"Web App", "API"},
    environment : {"Production", "Staging"},
    type : {"Bug", "Outage", "Task"} ]

IssueRecords == UNION { [1..n -> Issues] : n \in 0..MaxIssues }

InitGridfox ==
  /\ config = PendingConfig
  /\ response = NoResponse
  /\ log = <<>>
  /\ AdapterIdle

\* What may come of one fetchGridfox call: the fetch rejects; the body is
\* not JSON; the body is JSON without `records` (an error body, say), and
\* fetchGridfox returns undefined; the body is JSON with `records`.
Failures == {"rejected", "not JSON"}
Parsed == {"no records", "records"}

\* A call of configFromGridfox begins and sends the environments request.
ConfigFromGridfox ==
  /\ pc \in {"idle", "done", "failed"}
  /\ pc' = "awaitEnvironments"
  /\ requests' = <<"environments">>
  /\ received' = <<>>
  /\ config' = PendingConfig
  /\ response' = NoResponse
  /\ UNCHANGED <<log, environmentRecords, issueRecords, pageConfig>>

\* The environments response is received and parsed; the issues request
\* is sent.
EnvironmentsFetched(records) ==
  /\ pc = "awaitEnvironments"
  /\ environmentRecords' = records
  /\ received' = Append(received, "records")
  /\ requests' = Append(requests, "issues")
  /\ pc' = "awaitIssues"
  /\ UNCHANGED <<config, response, log, issueRecords, pageConfig>>

\* The environments response is parsed and has no `records`:
\* environmentRecords is undefined, and the issues request is sent all the
\* same.
EnvironmentsWithoutRecords ==
  /\ pc = "awaitEnvironments"
  /\ received' = Append(received, "no records")
  /\ requests' = Append(requests, "issues")
  /\ pc' = "awaitIssues"
  /\ UNCHANGED <<config, response, log, environmentRecords, issueRecords, pageConfig>>

\* The issues response is received and parsed; the function runs on to
\* its return statement.
IssuesFetched(issues) ==
  /\ pc = "awaitIssues"
  /\ received = <<"records">>
  /\ issueRecords' = issues
  /\ received' = Append(received, "records")
  /\ pageConfig' = PageConfig(environmentRecords, issues)
  /\ pc' = "return"
  /\ UNCHANGED <<config, response, log, environmentRecords, requests>>

\* The issues response is parsed and has no `records`: issueRecords is
\* undefined.  `issueRecords.filter` throws for the first service there is;
\* without any service it is never evaluated and the function runs on to
\* its return statement.
IssuesWithoutRecords ==
  /\ pc = "awaitIssues"
  /\ received = <<"records">>
  /\ received' = Append(received, "no records")
  /\ IF \E e \in 1..Len(environmentRecords) : environmentRecords[e].services # <<>>
     THEN /\ pc' = "failed"
          /\ environmentRecords' = <<>>
          /\ UNCHANGED pageConfig
     ELSE /\ pc' = "return"
          /\ pageConfig' = PageConfig(environmentRecords, <<>>)
          /\ UNCHANGED environmentRecords
  /\ UNCHANGED <<config, response, log, issueRecords, requests>>

\* The issues response is parsed, whatever it holds, after environments
\* without `records`: `environmentRecords.map` throws, the call rejects.
MappingFailed(outcome) ==
  /\ pc = "awaitIssues"
  /\ received = <<"no records">>
  /\ received' = Append(received, outcome)
  /\ pc' = "failed"
  /\ UNCHANGED <<config, response, log, environmentRecords, issueRecords,
                 pageConfig, requests>>

\* The function returns pageConfig to its caller; its locals are gone.
Return ==
  /\ pc = "return"
  /\ config' = pageConfig
  /\ pc' = "done"
  /\ environmentRecords' = <<>>
  /\ issueRecords' = <<>>
  /\ pageConfig' = PendingConfig
  /\ UNCHANGED <<response, log, requests, received>>

\* A slip: a fetch that fails is sent again.
FetchFailed_Retry(failure) ==
  /\ pc \in {"awaitEnvironments", "awaitIssues"}
  /\ Len(requests) < 4
  /\ received' = Append(received, failure)
  /\ requests' = Append(requests, requests[Len(requests)])
  /\ UNCHANGED <<config, response, log, pc, environmentRecords, issueRecords,
                 pageConfig>>

\* A fetch rejects or its body is not JSON: nothing catches it, the call
\* rejects, and its locals are gone.
FetchFailed(failure) ==
  /\ pc \in {"awaitEnvironments", "awaitIssues"}
  /\ received' = Append(received, failure)
  /\ pc' = "failed"
  /\ environmentRecords' = <<>>
  /\ UNCHANGED <<config, response, log, issueRecords, pageConfig, requests>>

\* createStatusPage(config) on the config the adapter returned.
CreateStatusPageFromGridfox(d) ==
  /\ pc = "done"
  /\ response' = createStatusPage(config, d)
  /\ UNCHANGED <<config, log, adapterVars>>

NextGridfox ==
  \/ ConfigFromGridfox
  \/ \E records \in EnvironmentRecords : EnvironmentsFetched(records)
  \/ EnvironmentsWithoutRecords
  \/ \E issues \in IssueRecords : IssuesFetched(issues)
  \/ IssuesWithoutRecords
  \/ \E outcome \in Parsed : MappingFailed(outcome)
  \/ Return
  \/ \E failure \in Failures : FetchFailed(failure)
  \/ \E d \in Clocks : CreateStatusPageFromGridfox(d)

SpecGridfox == InitGridfox /\ [][NextGridfox]_vars

\* ------------------------------------------------ reading a page back

Rendered == response # NoResponse

Positions(page, token) == { i \in 1..Len(page) : page[i] = token }

\* The k-th smallest member of a set of positions.
Nth(S, k) == CHOOSE x \in S : Cardinality({ y \in S : y < x }) = k - 1

\* The rows found between two positions of a page, in page order.
RowsBetween(page, from, to) ==
  LET starts == { i \in Positions(page, RowOpen) : from < i /\ i < to }
  IN  [ r \in 1..Cardinality(starts) |->
          LET p == Nth(starts, r)
          IN  [ name |-> page[p + 1], title |-> page[p + 3], icon |-> page[p + 5] ] ]

\* The environment tables found in a page, in page order.
TablesIn(page) ==
  LET starts == Positions(page, DetailsOpen)
      ends == Positions(page, DetailsClose)
  IN  [ k \in 1..Cardinality(starts) |->
          LET p == Nth(starts, k)
              q == Nth(ends, k)
          IN  [ open |-> page[p + 1], name |-> page[p + 3], icon |-> page[p + 5],
                rows |-> RowsBetween(page, p, q) ] ]

\* The page's only position of a token of the template.
At(page, token) == CHOOSE i \in Positions(page, token) : TRUE

\* The severity order noissue < incident < outage.
Severity == [ noissue |-> 0, incident |-> 1, outage |-> 2 ]

\* The most severe of a set of statuses, noissue for the empty set.
MaxSeverity(S) ==
  CHOOSE m \in S \cup {"noissue"} :
    \A x \in S \cup {"noissue"} : Severity[x] <= Severity[m]

StatusesOf(services) == { services[j].status : j \in 1..Len(services) }

AllStatusesOf(environments) ==
  UNION { StatusesOf(environments[i].services) : i \in 1..Len(environments) }

\* The status an icon stands for.
StatusOfIcon(icon) == CHOOSE st \in Status : ICONS[st] = icon

\* ----------------------------------------------------------------- claims

\* C1: in a rendered page every environment's summary row shows the icon
\* of the most severe status among the environment's services, and the
\* icon of noissue when the environment has no services.
C1_SummaryIconIsMaximum ==
  Rendered =>
    LET tables == TablesIn(response.body)
    IN  /\ Len(tables) = Len(config.environments)
        /\ \A k \in 1..Len(tables) :
             tables[k].icon
               = ICONS[MaxSeverity(StatusesOf(config.environments[k].services))]

\* C1 witness: a rendered page with an environment holding an incident
\* before an outage, shown as outage, and an environment without services,
\* shown as noissue.
C1_Witness ==
  /\ Rendered
  /\ \E k, e \in 1..Len(config.environments) :
       LET services == config.environments[k].services
       IN  /\ Len(services) = 2
           /\ services[1].status = "incident"
           /\ services[2].status = "outage"
           /\ TablesIn(response.body)[k].icon = ICONS.outage
           /\ config.environments[e].services = <<>>
           /\ TablesIn(response.body)[e].icon = ICONS.noissue

\* C2 as claimed: the header of every rendered page shows the icon and the
\* title of the most severe status among all services of the config.
C2_HeaderIsMaximum ==
  Rendered =>
    LET page == response.body
        worst == MaxSeverity(AllStatusesOf(config.environments))
    IN  /\ page[At(page, HeaderOpen) + 1] = ICONS[worst]
        /\ page[At(page, HeaderIconEnd) + 1] = TITLES[worst]

\* C5: in a rendered page the first environment table carries the open
\* attribute and no other table does, whatever the statuses.
C5_OnlyFirstTableOpen ==
  Rendered =>
    LET tables == TablesIn(response.body)
    IN  /\ Len(tables) = Len(config.environments)
        /\ \A k \in 1..Len(tables) :
             tables[k].open = (IF k = 1 THEN "open" ELSE "")

\* C5 witness: a rendered page whose first environment is all noissue and
\* whose second holds an outage; the first is open, the second collapsed.
C5_Witness ==
  /\ Rendered
  /\ Len(config.environments) = 2
  /\ StatusesOf(config.environments[1].services) = {"noissue"}
  /\ "outage" \in StatusesOf(config.environments[2].services)
  /\ TablesIn(response.body)[1].open = "open"
  /\ TablesIn(response.body)[2].open = ""

\* What the page holds between the opening and the closing of the logo block.
LogoBlockIn(page) ==
  SubSeq(page, At(page, LogoOpen) + 1, At(page, NavLinks) - 2)

\* C6: a logo whose first four characters are `<svg` is the whole logo
\* block and the page holds no image reference; any other logo, the empty
\* one included, is the src value of the page's one image reference.
C6_LogoInlinedOrReferenced ==
  Rendered =>
    LET page == response.body
        logo == config.logo
        isSvg == /\ Len(logo) >= 4
                 /\ logo[1] = "<" /\ logo[2] = "s" /\ logo[3] = "v" /\ logo[4] = "g"
    IN  IF isSvg
        THEN /\ LogoBlockIn(page) = logo
             /\ Positions(page, ImgOpen) = {}
        ELSE /\ LogoBlockIn(page) = <<ImgOpen>> \o logo \o <<ImgClose>>
             /\ Cardinality(Positions(page, ImgOpen)) = 1

\* C6 witness: a rendered page whose logo shares three characters with the
\* marker without starting with it, emitted as an image reference.
C6_Witness ==
  /\ Rendered
  /\ config.logo = << "<", "s", "v", "x", "g" >>
  /\ LogoBlockIn(response.body) = <<ImgOpen>> \o config.logo \o <<ImgClose>>

\* C7: the page has one style block; the custom CSS stands in it character
\* for character, right after the built-in rules and their closing comment
\* and right before the block closes; absent custom CSS gives the page that
\* the empty string gives, with nothing in that place.
C7_CustomCssVerbatimAtEnd ==
  Rendered =>
    LET page == response.body
        css == IF config.customCSS.defined THEN config.customCSS.text ELSE <<>>
        p == At(page, CustomStylesComment)
    IN  /\ Cardinality(Positions(page, StyleOpen)) = 1
        /\ Cardinality(Positions(page, StyleClose)) = 1
        /\ page[p - 2] = StyleOpen
        /\ page[p - 1] = BuiltInRules
        /\ SubSeq(page, p + 1, p + Len(css)) = css
        /\ page[p + Len(css) + 1] = StyleClose
        /\ css = <<>> =>
             \E d \in Clocks :
               page = generateHTML([config EXCEPT !.customCSS = Str(<<>>)], d)

\* C7 witness: a rendered page whose custom CSS holds `<` and `&`, found
\* unchanged before the end of the style block.
C7_Witness ==
  /\ Rendered
  /\ config.customCSS = Str(<< "p", "{", "c", ":", "\"", "<", "&", "\"", "}" >>)
  /\ LET page == response.body
         p == At(page, CustomStylesComment)
     IN  SubSeq(page, p + 1, p + 9) = config.customCSS.text

\* C10: a rendered page has one table per environment and in it one row per
\* service, in input order, each row with the service's name and the title
\* and icon of the service's status; titles and icons are defined for the
\* three statuses and no two statuses share one.
C10_OneRowPerService ==
  Rendered =>
    LET page == response.body
        tables == TablesIn(page)
        environments == config.environments
    IN  /\ Len(tables) = Len(environments)
        /\ Cardinality(Positions(page, DetailsClose)) = Len(environments)
        /\ \A k \in 1..Len(tables) :
             LET services == environments[k].services
                 rows == tables[k].rows
             IN  /\ tables[k].name = environments[k].name
                 /\ Len(rows) = Len(services)
                 /\ \A r \in 1..Len(rows) :
                      /\ rows[r].name = services[r].name
                      /\ rows[r].title = TITLES[services[r].status]
                      /\ rows[r].icon = ICONS[services[r].status]
        /\ DOMAIN ICONS = Status
        /\ DOMAIN TITLES = Status
        /\ \A a, b \in Status :
             a # b => ICONS[a] # ICONS[b] /\ TITLES[a] # TITLES[b]

\* C10 witness: a rendered page with two environments, the first with two
\* services of different names and statuses, each found in its own row.
C10_Witness ==
  /\ Rendered
  /\ Len(config.environments) = 2
  /\ LET services == config.environments[1].services
         rows == TablesIn(response.body)[1].rows
     IN  /\ Len(services) = 2
         /\ services[1].status = "outage"
         /\ services[2].status = "incident"
         /\ rows[1].name = "Web App" /\ rows[1].title = "Service Disruption Ongoing"
         /\ rows[2].name = "API" /\ rows[2].title = "Some Systems Are Experiencing Issues"
  /\ Len(config.environments[2].services) = 1
  /\ Len(TablesIn(response.body)[2].rows) = 1

C3_ServiceStatusFromScopedIssues ==
  pc = "return" =>
    /\ Len(pageConfig.environments) = Len(environmentRecords)
    /\ \A e \in 1..Len(environmentRecords) :
         LET env == environmentRecords[e]
             out == pageConfig.environments[e]
             Matching(j) ==
               { i \in 1..Len(issueRecords) :
                   /\ issueRecords[i].service = env.services[j].referenceFieldValue
                   /\ issueRecords[i].environment = env.name }
             Worst(I) == MaxSeverity({ issueStatusType(issueRecords[i]) : i \in I })
         IN  /\ out.name = env.name
             /\ Len(out.services) = Len(env.services)
             /\ \A j \in 1..Len(env.services) :
                  /\ out.services[j].name = env.services[j].referenceFieldValue
                  /\ out.services[j].status = Worst(Matching(j))
             /\ getIcon(out.services)
                  = ICONS[Worst(UNION { Matching(j) : j \in 1..Len(env.services) })]

\* C3 witness: three environment records with the same service and two
\* issue records; the outage issue of the first environment makes its
\* service and the environment outage, the others stay noissue.
C3_Witness ==
  /\ pc = "return"
  /\ Len(environmentRecords) = 3
  /\ \A e \in 1..3 : Len(environmentRecords[e].services) = 1
  /\ issueRecords
       = << [service |-> "Web App", environment |-> "Production", type |-> "Outage"],
            [service |-> "API", environment |-> "Staging", type |-> "Bug"] >>
  /\ pageConfig.environments[1].services[1].status = "outage"
  /\ getIcon(pageConfig.environments[1].services) = ICONS.outage
  /\ pageConfig.environments[2].services[1].status = "noissue"
  /\ pageConfig.environments[3].services[1].status = "noissue"

\* C4: the config configFromGridfox is about to return has as currentStatus
\* the most severe status of all its services, which is the most severe of
\* the statuses getIcon derives for its environments; and in a page
\* rendered from the returned config the header icon is the icon of the
\* most severe status among the summary rows.
C4_AdapterAgreesWithRenderer ==
  /\ pc = "return" =>
       LET environments == pageConfig.environments
           derived ==
             { StatusOfIcon(getIcon(environments[e].services))
                 : e \in 1..Len(environments) }
       IN  /\ pageConfig.currentStatus = MaxSeverity(AllStatusesOf(environments))
           /\ pageConfig.currentStatus = MaxSeverity(derived)
  /\ (pc = "done" /\ Rendered) =>
       LET page == response.body
           tables == TablesIn(page)
           shown == { StatusOfIcon(tables[k].icon) : k \in 1..Len(tables) }
       IN  page[At(page, HeaderOpen) + 1] = ICONS[MaxSeverity(shown)]

\* C4 witness: a page rendered from a returned config whose first
\* environment holds an outage and whose second holds an incident; the
\* header shows outage.
C4_Witness ==
  /\ pc = "done"
  /\ Rendered
  /\ Len(config.environments) >= 2
  /\ StatusesOf(config.environments[1].services) = {"outage", "noissue"}
  /\ StatusesOf(config.environments[2].services) = {"incident"}
  /\ config.currentStatus = "outage"
  /\ response.body[At(response.body, HeaderOpen) + 1] = ICONS.outage

\* C9: with zero environment records configFromGridfox is about to return
\* currentStatus noissue and no environments; and the page rendered from a
\* returned config without environments is whole, from the document's
\* opening to its closing with the legend right before it, has no
\* environment table, shows noissue in its header and is served as HTML.
C9_EmptyEnvironments ==
  /\ (pc = "return" /\ environmentRecords = <<>>) =>
       /\ pageConfig.currentStatus = "noissue"
       /\ pageConfig.environments = <<>>
  /\ (pc = "done" /\ Rendered /\ config.environments = <<>>) =>
       LET page == response.body
       IN  /\ config.currentStatus = "noissue"
           /\ page[1] = DocumentOpen
           /\ page[Len(page)] = DocumentClose
           /\ page[Len(page) - 1] = LegendClose
           /\ Positions(page, DetailsOpen) = {}
           /\ Positions(page, RowOpen) = {}
           /\ page[At(page, HeaderOpen) + 1] = ICONS.noissue
           /\ page[At(page, HeaderIconEnd) + 1] = TITLES.noissue
           /\ response.headers.ContentType = "text/html"

\* C9 witness: a page rendered from the config that configFromGridfox
\* returned for zero environment records.
C9_Witness ==
  /\ pc = "done"
  /\ Rendered
  /\ config.environments = <<>>
  /\ config.currentStatus = "noissue"
  /\ response.body[Len(response.body) - 1] = LegendClose

\* C11: in one call of configFromGridfox the requests sent are a start of
\* <<environments, issues>>, so at most two, in that order, none twice; the
\* issues request is sent only once the environments response has been
\* received and parsed; and once a fetch has rejected or a body has failed
\* to parse, that was the call's last request, the call has ended in
\* failure and no PageConfig has been built or handed to the caller.
C11_SequentialFetchesNoRetry ==
  /\ requests \in { <<>>, <<"environments">>, <<"environments", "issues">> }
  /\ Len(received) <= Len(requests)
  /\ Len(requests) <= Len(received) + 1
  /\ Len(requests) = 2 => received[1] \in Parsed
  /\ \A i \in 1..Len(received) :
       received[i] \in Failures =>
         /\ i = Len(received)
         /\ Len(requests) = i
         /\ pc = "failed"
         /\ pageConfig = PendingConfig
         /\ config = PendingConfig

\* C11 witness: the environments response was parsed, the issues request
\* was sent and its body was not JSON; the call has failed after exactly
\* those two requests.
C11_Witness ==
  /\ pc = "failed"
  /\ requests = <<"environments", "issues">>
  /\ received = <<"records", "not JSON">>
  /\ config = PendingConfig

====
